---------------------------- MODULE Spec2Model ----------------------------
(***************************************************************************)
(* Model of the Fixie chat backend: the /chat endpoint (main.py), the      *)
(* multi-agent workflow and the direct filing path (agents.py), the        *)
(* approval workflow (approval_workflow.py) and the tool-calling chat      *)
(* workflow (langgraph_workflow.py).                                       *)
(*                                                                         *)
(* Text.  A Python str is modelled as a sequence of atoms.  An atom is     *)
(* either one character (user messages and keywords are written character *)
(* by character, so that `keyword in message.lower()` is a real substring  *)
(* search) or an opaque chunk of a fixed template (the literal parts of an *)
(* f-string).  f-string interpolation is concatenation (\o).  The atom     *)
(* CheckMark stands for the character U+2705 and CrossMark for U+274C.     *)
(*                                                                         *)
(* Not modelled: uuid message ids, createdAt/updatedAt timestamps, logging.*)
(***************************************************************************)
EXTENDS Integers, Sequences, FiniteSets, TLC

(***************************************************************************)
(* Bounds of the model.                                                    *)
(***************************************************************************)
\* number of requests served
MaxTurns == 3

(***************************************************************************)
(* Text helpers.                                                           *)
(***************************************************************************)
UpperLetters == <<"A","B","C","D","E","F","G","H","I","J","K","L","M",
                  "N","O","P","Q","R","S","T","U","V","W","X","Y","Z">>
LowerLetters == <<"a","b","c","d","e","f","g","h","i","j","k","l","m",
                  "n","o","p","q","r","s","t","u","v","w","x","y","z">>

LowerMap ==
    [ch \in {UpperLetters[i] : i \in 1..Len(UpperLetters)} |->
        LowerLetters[CHOOSE i \in 1..Len(UpperLetters) : UpperLetters[i] = ch]]

\* str.lower() on one character
LowerAtom(ch) == IF ch \in DOMAIN LowerMap THEN LowerMap[ch] ELSE ch

\* str.lower()
Lower(text) == [i \in 1..Len(text) |-> LowerAtom(text[i])]

\* Python's `needle in text` on strings: a contiguous occurrence
Contains(needle, text) ==
    \E i \in 0..(Len(text) - Len(needle)) :
        SubSeq(text, i + 1, i + Len(needle)) = needle

CheckMark == "CHECK_MARK"
CrossMark == "CROSS_MARK"

(***************************************************************************)
(* Inputs: conversation ids, user messages, emails, ticket fields.         *)
(***************************************************************************)
ConvIds == {"c1", "c2"}

MsgVpn == <<"v", "p", "n">>
MsgYes == <<"Y", "e", "s">>
MsgEscalate == <<"E", "s", "c", "a", "l", "a", "t", "e">>
MsgCreate == <<"C", "r", "e", "a", "t", "e", " ", "t", "i", "c", "k", "e", "t">>
Messages == {MsgVpn, MsgYes, MsgEscalate, MsgCreate}

\* an absent optional string (Python None)
None == "None"
\* an absent optional dict (Python None; an empty dict is as falsy)
NoData == [absent |-> TRUE]

EmailUser == <<"u@x.com">>
EmailDraft == <<"a@b.com">>
\* what the request carries as userEmail (an absent one would read as the
\* empty text: both are falsy)
RequestEmails == {EmailUser}

\* argument sets of a ticket tool call (subject, description, priority, email)
DraftPrinter ==
    [subject |-> <<"Printer broken">>, description |-> <<"Tried a restart">>,
     priority |-> "2", email |-> EmailDraft]
DraftVpn ==
    [subject |-> <<"VPN down">>, description |-> <<"Cannot connect">>,
     priority |-> "4", email |-> EmailUser]
Drafts == {DraftPrinter, DraftVpn}

\* what the request may carry as ticketData
TicketDatas == {NoData} \cup Drafts

(***************************************************************************)
(* The two keyword lists.                                                  *)
(***************************************************************************)
KwCreateTicket == <<"c", "r", "e", "a", "t", "e", " ", "t", "i", "c", "k", "e", "t">>
KwCreateATicket == <<"c", "r", "e", "a", "t", "e", " ", "a", " ", "t", "i", "c", "k", "e", "t">>
KwYes == <<"y", "e", "s">>
KwProceed == <<"p", "r", "o", "c", "e", "e", "d">>
KwConfirm == <<"c", "o", "n", "f", "i", "r", "m">>
KwOpenTicket == <<"o", "p", "e", "n", " ", "t", "i", "c", "k", "e", "t">>
KwSubmitTicket == <<"s", "u", "b", "m", "i", "t", " ", "t", "i", "c", "k", "e", "t">>
KwEscalate == <<"e", "s", "c", "a", "l", "a", "t", "e">>
KwHumanHelp == <<"h", "u", "m", "a", "n", " ", "h", "e", "l", "p">>
KwSupportTeam == <<"s", "u", "p", "p", "o", "r", "t", " ", "t", "e", "a", "m">>
KwManager == <<"m", "a", "n", "a", "g", "e", "r">>

\* main.py: ticket_keywords of chat_endpoint
endpoint_ticket_keywords ==
    {KwCreateTicket, KwCreateATicket, KwYes, KwProceed, KwConfirm}

\* agents.py: ticket_keywords of supervisor_routing
supervisor_ticket_keywords ==
    {KwCreateTicket, KwCreateATicket, KwOpenTicket, KwSubmitTicket,
     KwEscalate, KwHumanHelp, KwSupportTeam, KwManager}

\* main.py: any(keyword in message_lower for keyword in ticket_keywords)
endpoint_keyword_hit(message) ==
    \E message_lower \in {Lower(message)} :
        \E kw \in endpoint_ticket_keywords : Contains(kw, message_lower)

\* agents.py: supervisor_routing, on the content of the last message
supervisor_routing(messages) ==
    LET lowered == IF Len(messages) > 0
                   THEN Lower(messages[Len(messages)].content)
                   ELSE <<>>
    IN IF \E user_input \in {lowered} :
             \E kw \in supervisor_ticket_keywords : Contains(kw, user_input)
       THEN "ticket"
       ELSE "chat"


(***************************************************************************)
(* The Ticketing Gateway (Freshdesk), seen from requests.post: what one    *)
(* call can answer.  `json` is the parsed body, UnparsedJson when          *)
(* response.json raises.                                                   *)
(***************************************************************************)
UnparsedJson == [parsed |-> FALSE]
TicketIdA == "101"
\* atoms the regular expression class \w+ matches
WordAtoms == {TicketIdA}

OutCreated == [kind |-> "created", id |-> TicketIdA]
OutAuth ==
    [kind |-> "http_error", status |-> "401",
     body |-> <<"{code: invalid_credentials, message: ", "You have to be logged in", "}">>,
     json |-> [parsed |-> TRUE, code |-> "invalid_credentials", message |-> <<"You have to be logged in">>]]
OutEmail ==
    [kind |-> "http_error", status |-> "400",
     body |-> <<"{code: invalid_value, field: ", "email", ", message: ", "Validation failed", "}">>,
     json |-> [parsed |-> TRUE, code |-> "invalid_value", message |-> <<"Validation failed">>]]
OutOther ==
    [kind |-> "http_error", status |-> "500",
     body |-> <<"{code: internal, message: ", "Server exploded", "}">>,
     json |-> [parsed |-> TRUE, code |-> "internal", message |-> <<"Server exploded">>]]
OutHtml ==
    [kind |-> "http_error", status |-> "502",
     body |-> <<"<html>Bad Gateway</html>">>, json |-> UnparsedJson]
OutTimeout == [kind |-> "timeout"]
OutConnection == [kind |-> "connection_error"]
GatewayOutcomes ==
    {OutCreated, OutAuth, OutEmail, OutOther, OutHtml, OutTimeout, OutConnection}
\* the answers the conversation-level specification draws from
TurnOutcomes == {OutCreated, OutAuth}

(***************************************************************************)
(* Tools.  A tool run yields its text and the requests it sent to the      *)
(* gateway (none or one).                                                  *)
(***************************************************************************)
\* int(priority) for the priority strings of the model; anything else raises
IntTable == [p \in {"1", "2", "3", "4", "9"} |->
                CASE p = "1" -> 1 [] p = "2" -> 2 [] p = "3" -> 3
                  [] p = "4" -> 4 [] OTHER -> 9]
IsIntLiteral(p) == p \in DOMAIN IntTable

\* priority_names.get(int(priority), "Medium")
priority_name_of_int(n) ==
    CASE n = 1 -> "Low" [] n = 2 -> "Medium" [] n = 3 -> "High"
      [] n = 4 -> "Urgent" [] OTHER -> "Medium"

\* priority_names.get(priority, "Medium"), keyed by the string
priority_name_of_str(p) ==
    CASE p = "1" -> "Low" [] p = "2" -> "Medium" [] p = "3" -> "High"
      [] p = "4" -> "Urgent" [] OTHER -> "Medium"

TicketIdLabel == "Ticket ID:** #"

\* the f-string both filing tools return on success
created_text(id, subject, priority) ==
    <<CheckMark, " **Support ticket created successfully!** **", TicketIdLabel, id,
      " **Subject:** ">> \o subject \o
    <<" **Priority:** ", priority_name_of_int(IntTable[priority]),
      " **View your ticket:** https://domain/a/tickets/", id,
      " Our IT support team will review your request and respond within 24 hours.">>

\* the JSON body of the POST
ticket_payload(args) ==
    [description |-> args.description, subject |-> args.subject,
     email |-> args.email, priority |-> IntTable[args.priority], status |-> 2]

\* a bug the configuration check could have: always passing
is_configured_always(config) == TRUE

\* `not domain or not api_key or api_key == "your-freshdesk-api-key-here"`,
\* negated
is_configured(config) == config.freshdesk

TextConfigAgents ==
    <<CrossMark, " Unable to create tickets due to configuration issues. Please contact support directly.">>
TextAuthAgents ==
    <<CrossMark, " Authentication failed with Freshdesk. Please check API credentials.">>
TextEmailInvalid ==
    <<CrossMark, " Email validation failed. Please provide a valid email address.">>
TextUnexpectedAgents ==
    <<CrossMark, " Unexpected error while creating ticket. Please contact support directly.">>

\* a bug the error branch could have: the gateway's own error passed on
\* whatever its code
http_error_text_raw(out, authText) ==
    IF ~out.json.parsed
    THEN <<CrossMark, " Freshdesk API error ", out.status, ": ">> \o out.body
    ELSE <<CrossMark, " Freshdesk API error: ">> \o out.json.message

\* the branch `if not response.ok` of both filing tools, but for the
\* authentication text, which differs
http_error_text(out, authText) ==
    IF ~out.json.parsed
    THEN <<CrossMark, " Freshdesk API error ", out.status, ": ">> \o out.body
    ELSE IF out.json.code = "invalid_credentials" THEN authText
    ELSE IF Contains(<<"email">>, Lower(out.body)) THEN TextEmailInvalid
    ELSE <<CrossMark, " Freshdesk API error: ">> \o out.json.message

\* a bug create_freshdesk_ticket could have: the POST sent again when the
\* first one did not create the ticket
create_freshdesk_ticket_retrying(args, config, out) ==
    IF ~is_configured(config)
    THEN [raised |-> FALSE, text |-> TextConfigAgents, sent |-> <<>>]
    ELSE IF ~IsIntLiteral(args.priority)
    THEN [raised |-> FALSE, text |-> TextUnexpectedAgents, sent |-> <<>>]
    ELSE LET sent == <<ticket_payload(args)>>
         IN CASE out.kind = "created" ->
                   [raised |-> FALSE,
                    text |-> created_text(out.id, args.subject, args.priority),
                    sent |-> sent]
              [] out.kind = "http_error" ->
                   [raised |-> FALSE,
                    text |-> http_error_text(out, TextAuthAgents),
                    sent |-> sent \o sent]
              [] OTHER ->
                   [raised |-> FALSE, text |-> TextUnexpectedAgents,
                    sent |-> sent \o sent]

\* a bug create_freshdesk_ticket could have: no `except Exception` around
\* its body, so that what int(priority) and requests.post raise reaches the
\* caller
create_freshdesk_ticket_uncaught(args, config, out) ==
    IF ~is_configured(config)
    THEN [raised |-> FALSE, text |-> TextConfigAgents, sent |-> <<>>]
    ELSE IF ~IsIntLiteral(args.priority)
    THEN [raised |-> TRUE, text |-> <<>>, sent |-> <<>>]
    ELSE LET sent == <<ticket_payload(args)>>
         IN CASE out.kind = "created" ->
                   [raised |-> FALSE,
                    text |-> created_text(out.id, args.subject, args.priority),
                    sent |-> sent]
              [] out.kind = "http_error" ->
                   [raised |-> FALSE,
                    text |-> http_error_text(out, TextAuthAgents), sent |-> sent]
              [] OTHER ->
                   [raised |-> TRUE, text |-> <<>>, sent |-> sent]

\* agents.py: the tool create_freshdesk_ticket.  raised tells whether the
\* call raised to its caller in place of returning a text
create_freshdesk_ticket(args, config, out) ==
    IF ~is_configured(config)
    THEN [raised |-> FALSE, text |-> TextConfigAgents, sent |-> <<>>]
    ELSE IF ~IsIntLiteral(args.priority)
    THEN [raised |-> FALSE, text |-> TextUnexpectedAgents, sent |-> <<>>]
    ELSE LET sent == <<ticket_payload(args)>>
         IN CASE out.kind = "created" ->
                   [raised |-> FALSE,
                    text |-> created_text(out.id, args.subject, args.priority),
                    sent |-> sent]
              [] out.kind = "http_error" ->
                   [raised |-> FALSE,
                    text |-> http_error_text(out, TextAuthAgents), sent |-> sent]
              [] OTHER ->
                   [raised |-> FALSE, text |-> TextUnexpectedAgents, sent |-> sent]

TextConfigChat ==
    <<"I apologize, but I'm unable to create tickets at the moment due to configuration issues. Please contact support directly.">>
TextAuthChat ==
    <<CrossMark, " Authentication failed with Freshdesk. Please check the API credentials.">>
TextTimeout == <<CrossMark, " Request timed out. Please try again.">>
TextConnection ==
    <<CrossMark, " Cannot connect to Freshdesk. Please check your internet connection.">>
TextUnexpectedChat ==
    <<CrossMark, " I encountered an unexpected error while creating your ticket. Please contact our support team directly.">>

\* langgraph_workflow.py: the tool create_support_ticket
create_support_ticket(args, config, out) ==
    IF ~is_configured(config)
    THEN [raised |-> FALSE, text |-> TextConfigChat, sent |-> <<>>]
    ELSE IF ~IsIntLiteral(args.priority)
    THEN [raised |-> FALSE, text |-> TextUnexpectedChat, sent |-> <<>>]
    ELSE LET sent == <<ticket_payload(args)>>
         IN CASE out.kind = "created" ->
                   [raised |-> FALSE, text |-> created_text(out.id, args.subject, args.priority),
                    sent |-> sent]
              [] out.kind = "http_error" ->
                   [raised |-> FALSE, text |-> http_error_text(out, TextAuthChat), sent |-> sent]
              [] out.kind = "timeout" -> [raised |-> FALSE, text |-> TextTimeout, sent |-> sent]
              [] out.kind = "connection_error" ->
                   [raised |-> FALSE, text |-> TextConnection, sent |-> sent]
              [] OTHER -> [raised |-> FALSE, text |-> TextUnexpectedChat, sent |-> sent]

\* approval_workflow.py: the tool generate_ticket_details; it sends nothing
generate_ticket_details(args) ==
    [raised |-> FALSE, text |->
        <<"I can help you create a support ticket for this issue. Here's what I'll include: **Subject:** ">>
        \o args.subject \o <<" **Description:** ">> \o args.description
        \o <<" **Priority:** ", priority_name_of_str(args.priority), " **Email:** ">>
        \o args.email
        \o <<" Would you like me to proceed with creating this ticket?">>,
     sent |-> <<>>]

ToolNames == {"create_freshdesk_ticket", "create_support_ticket", "generate_ticket_details"}

\* what ToolNode puts in the ToolMessage of a call whose arguments the
\* tool's schema rejects (a required one is missing); the tool is not run
TextToolError == <<"Error: ", "ValidationError", " Please fix your mistakes.">>
ToolFields == {"subject", "description", "priority", "email"}

\* running the tool called `name`
run_tool(name, args, config, out) ==
    IF ~(ToolFields \subseteq DOMAIN args)
    THEN [raised |-> FALSE, text |-> TextToolError, sent |-> <<>>]
    ELSE
    CASE name = "create_freshdesk_ticket" -> create_freshdesk_ticket(args, config, out)
      [] name = "create_support_ticket" -> create_support_ticket(args, config, out)
      [] OTHER -> generate_ticket_details(args)

(***************************************************************************)
(* Messages of a workflow state (HumanMessage, AIMessage, ToolMessage).    *)
(* tool_calls is empty on every message that carries no request.           *)
(***************************************************************************)
HumanMessage(content) == [type |-> "human", content |-> content, tool_calls |-> <<>>]
AIMessage(content, calls) == [type |-> "ai", content |-> content, tool_calls |-> calls]
ToolMessage(content) == [type |-> "tool", content |-> content, tool_calls |-> <<>>]

\* a bug the tool node could have: only the first call of the message run
ToolNode_first_only(calls, config, outs) ==
    IF calls = <<>>
    THEN [messages |-> <<>>, sent |-> <<>>]
    ELSE LET r == run_tool(calls[1].name, calls[1].args, config, outs[1])
         IN [messages |-> <<ToolMessage(r.text)>>, sent |-> r.sent]

\* langgraph.prebuilt.ToolNode: one ToolMessage per tool call of the last
\* message, in request order; outs[i] is what the gateway answers call i
RECURSIVE ToolNode(_, _, _)
ToolNode(calls, config, outs) ==
    IF calls = <<>>
    THEN [messages |-> <<>>, sent |-> <<>>]
    ELSE LET r == run_tool(calls[1].name, calls[1].args, config, outs[1])
             rest == ToolNode(Tail(calls), config, Tail(outs))
         IN [messages |-> <<ToolMessage(r.text)>> \o rest.messages,
             sent |-> r.sent \o rest.sent]

(***************************************************************************)
(* The Language Model Gateway: what one call can answer.  A call with no   *)
(* tool bound answers with a reply or raises; a call with a tool bound may *)
(* also answer with one or more calls of that tool.                        *)
(***************************************************************************)
ReplyTexts == {<<"Try restarting the VPN client.">>}
\* the text content of an assistant message that carries tool calls
CallContents == {<<>>}
LlmErrors == {<<"Connection error.">>}

\* the argument sets of the tool calls of one assistant message
ArgLists ==
    {<<DraftPrinter>>, <<DraftVpn>>, <<DraftPrinter, DraftVpn>>,
     <<DraftVpn, DraftPrinter>>}

LlmReplies == [kind : {"reply"}, content : ReplyTexts]
LlmCalls == [kind : {"calls"}, content : CallContents, args : ArgLists]
LlmRaises == [kind : {"raise"}, error : LlmErrors]

\* what a model bound to the tools `tools` can answer
LlmOutputs(tools) ==
    LlmReplies \cup LlmRaises \cup (IF tools = {} THEN {} ELSE LlmCalls)

\* the AIMessage of an answer of a model bound to the one tool `tool`
response_message(llm, tool) ==
    IF llm.kind = "calls"
    THEN AIMessage(llm.content,
                   [i \in 1..Len(llm.args) |-> [name |-> tool, args |-> llm.args[i]]])
    ELSE AIMessage(llm.content, <<>>)

\* one invocation of the model, as the run records it
llm_call(tools, prompt, messages) ==
    [tools |-> tools, messages |-> <<HumanMessage(prompt)>> \o messages]

PromptChat == <<"PROMPT chat agent">>
PromptTicket == <<"PROMPT ticket agent">>
PromptApproval == <<"PROMPT ticket creation mode">>
PromptChatbot == <<"PROMPT chatbot with tools">>

(***************************************************************************)
(* Helpers shared by the run_* functions.                                  *)
(***************************************************************************)
\* a bug the conversion could have: the current message given twice, as when
\* the history passed in already ends with it
to_messages_current_twice(conversation_history, message) ==
    LET kept == SelectSeq(conversation_history,
                          LAMBDA m : m.role \in {"user", "assistant"})
    IN [i \in 1..Len(kept) |->
            IF kept[i].role = "user"
            THEN HumanMessage(kept[i].content)
            ELSE AIMessage(kept[i].content, <<>>)]
       \o <<HumanMessage(message), HumanMessage(message)>>

\* the loop converting the stored history to LangChain messages, then the
\* current message
to_messages(conversation_history, message) ==
    LET kept == SelectSeq(conversation_history,
                          LAMBDA m : m.role \in {"user", "assistant"})
    IN [i \in 1..Len(kept) |->
            IF kept[i].role = "user"
            THEN HumanMessage(kept[i].content)
            ELSE AIMessage(kept[i].content, <<>>)]
       \o <<HumanMessage(message)>>

MaxOf(S) == CHOOSE x \in S : \A y \in S : y <= x
MinOf(S) == CHOOSE x \in S : \A y \in S : x <= y

\* final_messages[-1].content: the content of the last AIMessage
final_ai_content(messages) ==
    LET idx == {i \in 1..Len(messages) : messages[i].type = "ai"}
    IN messages[MaxOf(idx)].content

\* a bug the search could have: a pattern the text of the tool never matches
ticket_id_search_no_match(text) == None

\* re.search(r'Ticket ID:\*\* #(\w+)', text): group 1 of the first match
ticket_id_search(text) ==
    LET hits == {i \in 1..(Len(text) - 1) :
                    text[i] = TicketIdLabel /\ text[i + 1] \in WordAtoms}
    IN IF hits = {} THEN None ELSE text[MinOf(hits) + 1]

\* a run that raised
Raised(errorText, llmCalls) ==
    [error |-> TRUE, errorText |-> errorText, llmCalls |-> llmCalls,
     sent |-> <<>>, messages |-> <<>>]

(***************************************************************************)
(* approval_workflow.py                                                    *)
(***************************************************************************)
\* a bug extract_ticket_data could have: taking the last tool call of the
\* message instead of the first
extract_ticket_data_last_call(messages) ==
    LET idx == {i \in 1..Len(messages) :
                    /\ messages[i].tool_calls # <<>>
                    /\ messages[i].tool_calls[1].name = "generate_ticket_details"}
    IN IF idx = {}
       THEN [found |-> FALSE, ticket_details |-> NoData, approval_needed |-> FALSE]
       ELSE [found |-> TRUE,
             ticket_details |->
                messages[MaxOf(idx)].tool_calls[Len(messages[MaxOf(idx)].tool_calls)].args,
             approval_needed |-> TRUE]

\* extract_ticket_data: the update it returns
extract_ticket_data(messages) ==
    LET idx == {i \in 1..Len(messages) :
                    /\ messages[i].tool_calls # <<>>
                    /\ messages[i].tool_calls[1].name = "generate_ticket_details"}
    IN IF idx = {}
       THEN [found |-> FALSE, ticket_details |-> NoData, approval_needed |-> FALSE]
       ELSE [found |-> TRUE,
             ticket_details |-> messages[MaxOf(idx)].tool_calls[1].args,
             approval_needed |-> TRUE]

\* run_approval_workflow, with the graph analyze -> generate_details ->
\* extract_data of create_approval_workflow
run_approval_workflow(message, conversation_history, config, llm, outs) ==
    LET messages == to_messages(conversation_history, message)
        tools == {"generate_ticket_details"}
        calls == <<llm_call(tools, PromptApproval, messages)>>
    IN IF llm.kind = "raise"
       THEN Raised(llm.error, calls)
       ELSE
        LET response == response_message(llm, "generate_ticket_details")
            analyzed == Append(messages, response)
            \* should_generate_details
            useTools == response.tool_calls # <<>>
            ran == IF useTools
                   THEN ToolNode(response.tool_calls, config, outs)
                   ELSE [messages |-> <<>>, sent |-> <<>>]
            final == analyzed \o ran.messages
            extracted == extract_ticket_data(final)
            \* analyze_for_ticket sets approval_needed; extract_data, when
            \* it runs, overwrites it
            approval_needed == IF useTools THEN extracted.approval_needed ELSE TRUE
            ticket_details == IF useTools /\ extracted.found
                              THEN extracted.ticket_details
                              ELSE NoData
        IN [error |-> FALSE,
            result |->
               [content |-> final_ai_content(final),
                needsApproval |-> approval_needed,
                ticketDetails |-> ticket_details,
                toolsUsed |-> IF approval_needed
                              THEN <<"generate_ticket_details">> ELSE <<>>,
                issueType |-> "ticket_approval"],
            llmCalls |-> calls, sent |-> ran.sent, messages |-> final]

(***************************************************************************)
(* agents.py: the multi-agent workflow                                     *)
(***************************************************************************)
\* a bug create_chat_agent could have: the filing tool bound to its model
chat_agent_tools_with_filing == {"create_freshdesk_ticket"}

\* the tools each agent binds to its model
chat_agent_tools == {}
ticket_agent_tools == {"create_freshdesk_ticket"}

\* run_multi_agent_workflow, with the graph of create_multi_agent_workflow
\* and the graphs of the two agents
run_multi_agent_workflow(message, conversation_history, config, llm, outs) ==
    IF ~config.openai
    THEN Raised(<<"OpenAI API key not available">>, <<>>)
    ELSE
     LET messages == to_messages(conversation_history, message)
         agent == supervisor_routing(messages)
         tools == IF agent = "ticket" THEN ticket_agent_tools ELSE chat_agent_tools
         prompt == IF agent = "ticket" THEN PromptTicket ELSE PromptChat
         calls == <<llm_call(tools, prompt, messages)>>
     IN IF llm.kind = "raise"
        THEN Raised(llm.error, calls)
        ELSE
         LET response == response_message(llm, "create_freshdesk_ticket")
             analyzed == Append(messages, response)
             \* should_use_tools (the chat agent has no such edge)
             useTools == agent = "ticket" /\ response.tool_calls # <<>>
             ran == IF useTools
                    THEN ToolNode(response.tool_calls, config, outs)
                    ELSE [messages |-> <<>>, sent |-> <<>>]
             final == analyzed \o ran.messages
             tool_messages == SelectSeq(final, LAMBDA m : m.type = "tool")
             ticket_created ==
                 \E i \in 1..Len(tool_messages) :
                     Contains(<<CheckMark>>, tool_messages[i].content)
             labelled == {i \in 1..Len(tool_messages) :
                            Contains(<<TicketIdLabel>>, tool_messages[i].content)}
             ticket_id ==
                 IF ticket_created /\ labelled # {}
                 THEN ticket_id_search(tool_messages[MinOf(labelled)].content)
                 ELSE None
         IN [error |-> FALSE,
             result |->
                [content |-> final_ai_content(final),
                 needsApproval |-> FALSE,
                 toolsUsed |-> IF ticket_created
                               THEN <<"create_freshdesk_ticket">> ELSE <<>>,
                 issueType |-> agent,
                 ticketCreated |-> ticket_created,
                 ticketId |-> ticket_id],
             llmCalls |-> calls, sent |-> ran.sent, messages |-> final]

TextDirectError ==
    <<CrossMark, " Error creating ticket. Please contact support directly.">>

\* create_ticket_directly: the filing path of an approved ticket.  Its
\* `except Exception` branch is taken when ticket_data lacks a key and when
\* the tool raises; the dict of that branch has no ticketId, which
\* chat_endpoint reads with .get
create_ticket_directly(ticket_data, user_email, config, out) ==
    LET failed == [success |-> FALSE, content |-> TextDirectError,
                   ticketId |-> None, ticketNumber |-> None]
    IN IF ~({"subject", "description", "priority"} \subseteq DOMAIN ticket_data)
       THEN [result |-> failed, sent |-> <<>>]
       ELSE
        LET tool_input == [subject |-> ticket_data.subject,
                           description |-> ticket_data.description,
                           priority |-> ticket_data.priority,
                           email |-> user_email]
            ran == create_freshdesk_ticket(tool_input, config, out)
            ticket_id == ticket_id_search(ran.text)
        IN IF ran.raised
           THEN [result |-> failed, sent |-> ran.sent]
           ELSE [result |-> [success |-> Contains(<<CheckMark>>, ran.text),
                             content |-> ran.text,
                             ticketId |-> ticket_id,
                             ticketNumber |-> ticket_id],
                 sent |-> ran.sent]

(***************************************************************************)
(* main.py: state and the /chat endpoint.                                  *)
(*                                                                         *)
(* messages_db and conversations_db are the two dictionaries of main.py; a *)
(* missing key of messages_db reads as the empty list, as                  *)
(* messages_db.get(id, []) does.  config is the Config class of config.py, *)
(* fixed when the process starts: the Freshdesk domain and key are set,    *)
(* and so is the OpenAI key.                                               *)
(* gatewayCalls counts the POSTs the ticketing gateway received.  turns    *)
(* counts the requests served.  last describes the request served last:    *)
(* the request, the calls made to the model and to the gateway while       *)
(* serving it, and the response.  drafted and declined are history: the    *)
(* drafts returned for approval in a conversation, and those among them    *)
(* a decline turn of the conversation has answered.  In an approve turn     *)
(* last.outcome is what the gateway answers the request of the turn.       *)
(***************************************************************************)
VARIABLES config, messages_db, conversations_db, gatewayCalls, turns, last,
          drafted, declined

vars == <<config, messages_db, conversations_db, gatewayCalls, turns, last,
          drafted, declined>>

UserIds == {<<"u1">>}

\* a message typed by the user; a click on a button of the approval prompt
\* (the message sent along with a click is MsgYes)
TypedRequests ==
    [conversationId : ConvIds, message : Messages, userId : UserIds,
     userEmail : RequestEmails, action : {None}, ticketData : {NoData}]
ClickRequests ==
    [conversationId : ConvIds, message : {MsgYes}, userId : UserIds,
     userEmail : RequestEmails, action : {"approve_ticket", "decline_ticket"},
     ticketData : TicketDatas]
Requests == TypedRequests \cup ClickRequests

\* request.userEmail or "user@example.com"
user_email_of(request) ==
    IF request.userEmail = <<>> THEN <<"user@example.com">> ELSE request.userEmail

\* request.userId or "test-user"
user_id_of(request) ==
    IF request.userId = <<>> THEN <<"test-user">> ELSE request.userId

\* a bug the approval condition could have: the action name misspelled, so
\* that no request is taken as an approval
is_approve_request_misspelled(request) ==
    request.action = "approve" /\ request.ticketData # NoData

\* a bug the approval condition could have: ticketData not required
is_approve_request_any_data(request) == request.action = "approve_ticket"

\* chat_endpoint: request.action == 'approve_ticket' and request.ticketData
is_approve_request(request) ==
    request.action = "approve_ticket" /\ request.ticketData # NoData

\* a bug the decline condition could have: a draft required
is_decline_request_with_draft(request) ==
    request.action = "decline_ticket" /\ request.ticketData # NoData

\* chat_endpoint: request.action == 'decline_ticket'
is_decline_request(request) == request.action = "decline_ticket"

\* messages_db.get(request.conversationId, [])
stored_messages_of_another(c) == messages_db[CHOOSE d \in ConvIds : d # c]
stored_messages(c) == messages_db[c]

\* list.extend / list.append on the stored messages of a conversation
extend_replacing(stored, items) == items
extend(stored, items) == stored \o items

\* the two messages a chat turn stores: [user_message_data, ai_message_data]
turn_messages_reply_lost(user_message_data, ai_message_data) ==
    <<user_message_data>>
turn_messages(user_message_data, ai_message_data) ==
    <<user_message_data, ai_message_data>>

\* a bug the metadata update could have: the stored metadata written back
conversation_metadata_stale(request) == conversations_db[request.conversationId]

\* the dict chat_endpoint stores in conversations_db after a chat turn
conversation_metadata(request) ==
    [lastMessage |-> request.message, userId |-> user_id_of(request)]

DeclineMessage ==
    <<"I understand you don't want to create a ticket right now. Is there anything else I can help you with?">>

\* a bug ChatResponse could have: needsApproval defaulting to True
ChatResponse_asking(content, conversationId) ==
    [success |-> TRUE, content |-> content, conversationId |-> conversationId,
     needsApproval |-> TRUE, ticketSummary |-> <<>>,
     interactiveButtons |-> NoData, ticketCreated |-> FALSE,
     ticketId |-> None, ticketNumber |-> None]

\* ChatResponse with its defaults
ChatResponse(content, conversationId) ==
    [success |-> TRUE, content |-> content, conversationId |-> conversationId,
     needsApproval |-> FALSE, ticketSummary |-> <<>>,
     interactiveButtons |-> NoData, ticketCreated |-> FALSE,
     ticketId |-> None, ticketNumber |-> None]

\* a bug the approval prompt could have: the approve button's data carrying
\* the draft without its email
ticket_approval_buttons_no_email(ticketDetails) ==
    [type |-> "ticket_approval",
     buttons |-> <<[id |-> "approve_ticket", action |-> "approve_ticket",
                    data |-> [ticketDetails EXCEPT !.email = <<>>]],
                   [id |-> "decline_ticket", action |-> "decline_ticket"]>>]

\* the two buttons of the approval prompt
ticket_approval_buttons(ticketDetails) ==
    [type |-> "ticket_approval",
     buttons |-> <<[id |-> "approve_ticket", action |-> "approve_ticket",
                    data |-> ticketDetails],
                   [id |-> "decline_ticket", action |-> "decline_ticket"]>>]

\* the except branch of chat_endpoint
HTTPException(errorText) ==
    [success |-> FALSE,
     status |-> IF Contains(<<"a", "u", "t", "h">>, Lower(errorText))
                THEN 401 ELSE 500]

Init ==
    /\ config = [freshdesk |-> TRUE, openai |-> TRUE]
    /\ messages_db = [c \in ConvIds |-> <<>>]
    /\ conversations_db = [c \in ConvIds |-> NoData]
    /\ gatewayCalls = 0
    /\ turns = 0
    /\ last = [kind |-> "none"]
    /\ drafted = [c \in ConvIds |-> {}]
    /\ declined = [c \in ConvIds |-> {}]

\* the gateway answers that matter to a run that may send `n` requests
OutcomeLists(n) ==
    IF config.freshdesk THEN [1..n -> TurnOutcomes] ELSE [1..n -> {OutCreated}]

\* a ticket the conversation `c` has on record: an approve turn stored its
\* reply with the id of the ticket
recorded_ticket(c, content) ==
    \E i \in 1..Len(messages_db[c]) :
        /\ "ticketId" \in DOMAIN messages_db[c][i]
        /\ messages_db[c][i].ticketId # None
        /\ messages_db[c][i].content = content

\* what chat_endpoint does not do: filing an approved draft once, an
\* approval of fields the conversation already has a ticket for sending the
\* gateway nothing
file_approved_once(request, out) ==
    LET ran == create_ticket_directly(request.ticketData, user_email_of(request),
                                      config, out)
    IN IF recorded_ticket(request.conversationId, ran.result.content)
       THEN [ran EXCEPT !.sent = <<>>]
       ELSE ran

\* chat_endpoint: ticket_result = create_ticket_directly(request.ticketData, user_email)
file_approved(request, out) ==
    create_ticket_directly(request.ticketData, user_email_of(request), config, out)

\* chat_endpoint, branch `request.action == 'approve_ticket' and request.ticketData`
ApproveTurn(request, out) ==
    /\ is_approve_request(request)
    /\ LET c == request.conversationId
           ran == file_approved(request, out)
           ticket_result == ran.result
           message_data == [role |-> "assistant", content |-> ticket_result.content,
                            ticketId |-> ticket_result.ticketId,
                            ticketNumber |-> ticket_result.ticketNumber]
       IN /\ messages_db' = [messages_db EXCEPT ![c] = extend(@, <<message_data>>)]
          /\ gatewayCalls' = gatewayCalls + Len(ran.sent)
          /\ last' = [kind |-> "approve", request |-> request, outcome |-> out,
                      llmCalls |-> <<>>, sent |-> ran.sent,
                      response |->
                         [ChatResponse(ticket_result.content, c) EXCEPT
                            !.ticketCreated = ticket_result.success,
                            !.ticketId = ticket_result.ticketId,
                            !.ticketNumber = ticket_result.ticketNumber]]
    /\ turns' = turns + 1
    /\ UNCHANGED <<config, conversations_db, drafted, declined>>

\* a bug the decline branch could have: the declined draft kept in the
\* stored message
decline_message_data_keeping_draft(request) ==
    [role |-> "assistant", content |-> DeclineMessage,
     ticketData |-> request.ticketData]

\* chat_endpoint, branch decline: message_data
decline_message_data(request) ==
    [role |-> "assistant", content |-> DeclineMessage]

\* chat_endpoint, branch `request.action == 'decline_ticket'`
DeclineTurn(request) ==
    /\ ~is_approve_request(request)
    /\ is_decline_request(request)
    /\ LET c == request.conversationId
           message_data == decline_message_data(request)
       IN /\ messages_db' = [messages_db EXCEPT ![c] = extend(@, <<message_data>>)]
          /\ last' = [kind |-> "decline", request |-> request,
                      llmCalls |-> <<>>, sent |-> <<>>,
                      response |-> ChatResponse(DeclineMessage, c)]
          /\ declined' = [declined EXCEPT ![c] = @ \cup drafted[c]]
    /\ turns' = turns + 1
    /\ UNCHANGED <<config, conversations_db, gatewayCalls, drafted>>

\* the workflow the normal chat flow of chat_endpoint dispatches to
dispatch(request) ==
    IF endpoint_keyword_hit(request.message) THEN "approval" ELSE "multi_agent"

\* the tools bound to the model the dispatched workflow calls
dispatch_tools(request) ==
    IF dispatch(request) = "approval"
    THEN {"generate_ticket_details"}
    ELSE IF supervisor_routing(<<HumanMessage(request.message)>>) = "ticket"
         THEN ticket_agent_tools
         ELSE chat_agent_tools

\* chat_endpoint, the normal chat flow.  A workflow that raises takes the
\* turn to the except branch before anything is stored; the KeyError of
\* workflow_result["ticketDetails"]["subject"] takes it there after the two
\* messages and the metadata were stored
NormalTurn(request, llm, outs) ==
    /\ ~is_approve_request(request)
    /\ ~is_decline_request(request)
    /\ LET c == request.conversationId
           conversation_messages == stored_messages(c)
           chat_msgs == [i \in 1..Len(conversation_messages) |->
                            [role |-> conversation_messages[i].role,
                             content |-> conversation_messages[i].content]]
           workflow_run ==
               IF dispatch(request) = "approval"
               THEN run_approval_workflow(request.message, chat_msgs, config, llm, outs)
               ELSE run_multi_agent_workflow(request.message, chat_msgs, config, llm, outs)
       IN \E ran \in {workflow_run} :
          IF ran.error
          THEN /\ last' = [kind |-> "failed", request |-> request,
                           workflow |-> dispatch(request), outcomes |-> outs,
                           llmCalls |-> ran.llmCalls, sent |-> ran.sent,
                           response |-> HTTPException(ran.errorText)]
               /\ UNCHANGED <<messages_db, conversations_db, gatewayCalls, drafted>>
          ELSE LET workflow_result == ran.result
                   ai_response == workflow_result.content
                   user_message_data == [role |-> "user", content |-> request.message]
                   ai_message_data == [role |-> "assistant", content |-> ai_response]
                   approval == /\ workflow_result.needsApproval
                               /\ dispatch(request) = "approval"
                               /\ workflow_result.ticketDetails # NoData
                   key_error == approval
                                /\ "subject" \notin DOMAIN workflow_result.ticketDetails
                   response ==
                      IF key_error
                      THEN HTTPException(<<"'subject'">>)
                      ELSE IF approval
                      THEN [ChatResponse(ai_response, c) EXCEPT
                              !.needsApproval = TRUE,
                              !.ticketSummary = <<workflow_result.ticketDetails.subject>>,
                              !.interactiveButtons =
                                 ticket_approval_buttons(workflow_result.ticketDetails)]
                      ELSE ChatResponse(ai_response, c)
               IN /\ messages_db' =
                        [messages_db EXCEPT
                            ![c] = extend(@, turn_messages(user_message_data,
                                                           ai_message_data))]
                  /\ conversations_db' =
                        [conversations_db EXCEPT
                            ![c] = conversation_metadata(request)]
                  /\ gatewayCalls' = gatewayCalls + Len(ran.sent)
                  /\ IF key_error
                     THEN last' = [kind |-> "failed", request |-> request,
                                   workflow |-> dispatch(request), outcomes |-> outs,
                                   llmCalls |-> ran.llmCalls, sent |-> ran.sent,
                                   response |-> response]
                     ELSE last' = [kind |-> "normal", request |-> request,
                                   workflow |-> dispatch(request),
                                   issueType |-> workflow_result.issueType,
                                   result |-> workflow_result,
                                   messages |-> ran.messages, outcomes |-> outs,
                                   llmCalls |-> ran.llmCalls, sent |-> ran.sent,
                                   response |-> response]
                  /\ drafted' =
                        IF approval /\ ~key_error
                        THEN [drafted EXCEPT ![c] = @ \cup {workflow_result.ticketDetails}]
                        ELSE drafted
    /\ turns' = turns + 1
    /\ UNCHANGED <<config, declined>>

\* the gateway answers one request, if it is sent
Approve ==
    \E request \in Requests : \E out \in OutcomeLists(1) :
        ApproveTurn(request, out[1])

Decline == \E request \in Requests : DeclineTurn(request)

Normal ==
    \E request \in Requests :
        \E llm \in LlmOutputs(dispatch_tools(request)) :
            \E outs \in OutcomeLists(IF llm.kind = "calls" /\ dispatch(request) # "approval"
                                     THEN Len(llm.args) ELSE 0) :
                NormalTurn(request, llm, outs)

Next ==
    /\ turns < MaxTurns
    /\ \/ Approve
       \/ Decline
       \/ Normal

Spec == Init /\ [][Next]_vars

(***************************************************************************)
(* langgraph_workflow.py: the chat workflow, a graph chatbot <-> tools.    *)
(* It is a stand-alone entry point: chat_endpoint does not call it.        *)
(*                                                                         *)
(* The model's behaviour over one run is a script: it requests the tool    *)
(* with arguments `args` in each of its first `rounds` answers and gives   *)
(* `final` as the next one.  The gateway answers every request of the run  *)
(* with `out`.                                                             *)
(***************************************************************************)
\* workflow.invoke is called with no config: the graph runs at most this
\* many steps (LangGraph's default recursion_limit) and raises
\* GraphRecursionError when they do not reach END
RecursionLimit == 25

\* scripts long enough for the model to request a tool at every step
ScriptRounds == 0..((RecursionLimit + 1) \div 2)
ChatScripts ==
    [rounds : ScriptRounds, args : ArgLists,
     final : LlmReplies \cup LlmRaises]

\* the k-th answer of the model
script_answer(script, k) ==
    IF k <= script.rounds
    THEN [kind |-> "calls", content |-> <<>>, args |-> script.args]
    ELSE script.final

\* chatbot: the messages given to the model
chatbot_input(messages) ==
    IF \A i \in 1..Len(messages) :
          ~(messages[i].type = "ai" /\ Contains(<<"Fixie">>, messages[i].content))
    THEN <<HumanMessage(PromptChatbot)>> \o messages
    ELSE messages

\* the compiled graph of create_langgraph_workflow from step `step`, which
\* runs chatbot for the k-th time; acc holds the calls made so far
RECURSIVE chat_graph(_, _, _, _, _, _, _)
chat_graph(messages, step, k, script, cfg, out, acc) ==
    LET llm == script_answer(script, k)
        call == [tools |-> {"create_support_ticket"},
                 messages |-> chatbot_input(messages)]
        llmCalls == Append(acc.llmCalls, call)
    IN IF step > RecursionLimit
       THEN [status |-> "recursion_error", messages |-> messages,
             llmCalls |-> acc.llmCalls, sent |-> acc.sent]
       ELSE IF llm.kind = "raise"
       THEN [status |-> "llm_error", errorText |-> llm.error, messages |-> messages,
             llmCalls |-> llmCalls, sent |-> acc.sent]
       ELSE
        LET response == response_message(llm, "create_support_ticket")
            answered == Append(messages, response)
        IN \* should_continue
           IF response.tool_calls = <<>>
           THEN [status |-> "done", messages |-> answered,
                 llmCalls |-> llmCalls, sent |-> acc.sent]
           ELSE IF step + 1 > RecursionLimit
           THEN [status |-> "recursion_error", messages |-> answered,
                 llmCalls |-> llmCalls, sent |-> acc.sent]
           ELSE LET ran == ToolNode(response.tool_calls, cfg,
                                    [i \in 1..Len(response.tool_calls) |-> out])
                IN chat_graph(answered \o ran.messages, step + 2, k + 1, script,
                              cfg, out,
                              [llmCalls |-> llmCalls, sent |-> acc.sent \o ran.sent])

\* run_chat_workflow
run_chat_workflow(message, conversation_history, cfg, script, out) ==
    IF ~cfg.openai
    THEN [error |-> TRUE, errorText |-> <<"OpenAI API key not available">>,
          llmCalls |-> <<>>, sent |-> <<>>, messages |-> <<>>]
    ELSE
     LET graph == chat_graph(to_messages(conversation_history, message), 1, 1,
                             script, cfg, out,
                             [llmCalls |-> <<>>, sent |-> <<>>])
     IN IF graph.status # "done"
        THEN [error |-> TRUE,
              errorText |-> IF graph.status = "llm_error" THEN graph.errorText
                            ELSE <<"Recursion limit reached without hitting a stop condition">>,
              llmCalls |-> graph.llmCalls, sent |-> graph.sent,
              messages |-> graph.messages]
        ELSE
         LET messages == graph.messages
             calling == {i \in 1..Len(messages) :
                            /\ messages[i].tool_calls # <<>>
                            /\ messages[i].tool_calls[1].name = "create_support_ticket"}
         IN IF calling # {}
            THEN LET tool_args == messages[MinOf(calling)].tool_calls[1].args
                 IN [error |-> FALSE,
                     result |->
                        [content |->
                            <<"I can help you create a support ticket for this issue. Here's what I'll include: **Subject:** ">>
                            \o tool_args.subject \o <<" **Description:** ">>
                            \o tool_args.description
                            \o <<" **Priority:** ", priority_name_of_str(tool_args.priority),
                                 " Would you like me to proceed with creating this ticket?">>,
                         needsApproval |-> TRUE,
                         toolsUsed |-> <<"create_support_ticket">>,
                         issueType |-> "ticket_creation",
                         pendingTicket |-> tool_args],
                     llmCalls |-> graph.llmCalls, sent |-> graph.sent,
                     messages |-> messages]
            ELSE [error |-> FALSE,
                  result |->
                     [content |-> final_ai_content(messages),
                      needsApproval |-> FALSE,
                      toolsUsed |-> <<>>,
                      issueType |-> "general",
                      pendingTicket |-> NoData],
                  llmCalls |-> graph.llmCalls, sent |-> graph.sent,
                  messages |-> messages]

\* stored histories a run of the chat workflow is given
ChatHistories ==
    {<<>>,
     <<[role |-> "user", content |-> MsgVpn],
       [role |-> "assistant", content |-> <<"I am ", "Fixie", ", your IT assistant.">>]>>}

\* one run of run_chat_workflow
ChatRun(message, history, script, out) ==
    /\ last.kind = "none"
    /\ \E ran \in {run_chat_workflow(message, history, config, script, out)} :
          /\ last' = [kind |-> "chat_run", message |-> message, script |-> script,
                      run |-> ran]
          /\ gatewayCalls' = gatewayCalls + Len(ran.sent)
    /\ turns' = turns + 1
    /\ UNCHANGED <<config, messages_db, conversations_db, drafted, declined>>

NextChat ==
    \E message \in {MsgVpn, MsgEscalate} : \E history \in ChatHistories :
        \E script \in ChatScripts : \E out \in GatewayOutcomes :
            ChatRun(message, history, script, out)

ChatSpec == Init /\ [][NextChat]_vars

(***************************************************************************)
(* The tools and the direct filing path on their own: one call of a tool,  *)
(* or of create_ticket_directly, with arguments and a gateway answer drawn *)
(* from the sets below, in a process started with or without the Freshdesk *)
(* settings.                                                               *)
(***************************************************************************)
Configs == {[freshdesk |-> f, openai |-> TRUE] : f \in BOOLEAN}

\* arguments a caller may pass that the tool's docstring does not expect
ArgsPriorityNine == [DraftPrinter EXCEPT !.priority = "9"]
ArgsPriorityHigh == [DraftPrinter EXCEPT !.priority = "high"]
ArgsEmptySubject == [DraftPrinter EXCEPT !.subject = <<>>]
ArgsEmptyDescription == [DraftPrinter EXCEPT !.description = <<>>]
ArgsEmptyEmail == [DraftVpn EXCEPT !.email = <<>>]
ToolArgs ==
    Drafts \cup {ArgsPriorityNine, ArgsPriorityHigh, ArgsEmptySubject,
                 ArgsEmptyDescription, ArgsEmptyEmail}

\* a ticketData with no subject
TicketDataNoSubject ==
    [description |-> <<"Tried a restart">>, priority |-> "2", email |-> EmailDraft]
DirectTicketDatas == ToolArgs \cup {TicketDataNoSubject}
DirectEmails == {EmailUser, <<>>}

ToolInit ==
    /\ config \in Configs
    /\ messages_db = [c \in ConvIds |-> <<>>]
    /\ conversations_db = [c \in ConvIds |-> NoData]
    /\ gatewayCalls = 0
    /\ turns = 0
    /\ last = [kind |-> "none"]
    /\ drafted = [c \in ConvIds |-> {}]
    /\ declined = [c \in ConvIds |-> {}]

\* one call of the tool `name`
RunTool(name, args, out) ==
    /\ last.kind = "none"
    /\ \E ran \in {run_tool(name, args, config, out)} :
          /\ last' = [kind |-> "tool_run", name |-> name, args |-> args,
                      outcome |-> out, run |-> ran]
          /\ gatewayCalls' = gatewayCalls + Len(ran.sent)
    /\ turns' = turns + 1
    /\ UNCHANGED <<config, messages_db, conversations_db, drafted, declined>>

\* one call of create_ticket_directly
FileDirectly(ticket_data, user_email, out) ==
    /\ last.kind = "none"
    /\ \E ran \in {create_ticket_directly(ticket_data, user_email, config, out)} :
          /\ last' = [kind |-> "direct", ticket_data |-> ticket_data,
                      user_email |-> user_email, outcome |-> out, run |-> ran]
          /\ gatewayCalls' = gatewayCalls + Len(ran.sent)
    /\ turns' = turns + 1
    /\ UNCHANGED <<config, messages_db, conversations_db, drafted, declined>>

NextTool ==
    \/ \E name \in ToolNames : \E args \in ToolArgs : \E out \in GatewayOutcomes :
          RunTool(name, args, out)
    \/ \E ticket_data \in DirectTicketDatas : \E user_email \in DirectEmails :
          \E out \in GatewayOutcomes : FileDirectly(ticket_data, user_email, out)

ToolSpec == ToolInit /\ [][NextTool]_vars

(***************************************************************************)
(* The /chat endpoint at its edges: the model may request a tool with      *)
(* arguments the tool's docstring does not expect (a missing subject, an   *)
(* empty one, a priority that is no ordinal of 1..4), and the gateway may  *)
(* answer an approved filing in every way it can.                          *)
(***************************************************************************)
\* number of requests served
MaxEdgeTurns == 2

EdgeArgLists ==
    {<<DraftPrinter>>, <<TicketDataNoSubject>>, <<ArgsPriorityHigh>>,
     <<ArgsPriorityNine>>, <<ArgsEmptySubject>>}

EdgeLlmOutputs(tools) ==
    LlmReplies \cup LlmRaises
    \cup (IF tools = {} THEN {}
          ELSE [kind : {"calls"}, content : CallContents, args : EdgeArgLists])

ApproveEdge ==
    \E request \in Requests : \E out \in GatewayOutcomes :
        ApproveTurn(request, out)

NormalEdge ==
    \E request \in Requests :
        \E llm \in EdgeLlmOutputs(dispatch_tools(request)) :
            \E outs \in OutcomeLists(IF llm.kind = "calls" /\ dispatch(request) # "approval"
                                     THEN Len(llm.args) ELSE 0) :
                NormalTurn(request, llm, outs)

EdgeNext ==
    /\ turns < MaxEdgeTurns
    /\ \/ ApproveEdge
       \/ Decline
       \/ NormalEdge

EdgeSpec == Init /\ [][EdgeNext]_vars

(***************************************************************************)
(* Properties.                                                             *)
(***************************************************************************)
\* the request served last was a chat turn that ran a workflow to its end
ServedNormal == last.kind = "normal"
\* the request served last came in with the approve action and a draft
ServedApprove == last.kind = "approve"

\* the gateway request `payload` files the fields of the draft `d`
Files(payload, d) ==
    /\ payload.subject = d.subject
    /\ payload.description = d.description
    /\ payload.email = d.email
    /\ IsIntLiteral(d.priority)
    /\ payload.priority = IntTable[d.priority]

\* C1 (as claimed): the Ticketing Gateway is called only while serving a
\* request that carries the approve action and ticketData; serving any other
\* request (a chat turn of any behavior, a decline) sends it nothing.
C1_OnlyApproveTurnsCallGateway ==
    last.kind \in {"normal", "failed", "decline"} => last.sent = <<>>

\* C2 (as claimed): at every call of the model made while serving a request,
\* the tools bound to the model are among the draft-only tool; no filing tool
\* is offered.
C2_NoFilingToolOffered ==
    last.kind \in {"normal", "failed"} =>
        \A i \in 1..Len(last.llmCalls) :
            last.llmCalls[i].tools \subseteq {"generate_ticket_details"}

\* C3 (as claimed): when a draft returned for approval in a conversation is
\* approved in a later turn of it, the gateway is called exactly once and the
\* subject, description, priority and email it receives are the draft's.
C3_ApprovalFilesDraftUnchanged ==
    (/\ ServedApprove
     /\ last.request.ticketData \in drafted[last.request.conversationId])
    => /\ Len(last.sent) = 1
       /\ Files(last.sent[1], last.request.ticketData)

\* C4 (as claimed): a decline turn sends the gateway nothing, and after a
\* draft of a conversation was declined no turn other than an approve turn
\* files the fields of that draft.
C4_DeclinedDraftNotFiled ==
    /\ last.kind = "decline" => last.sent = <<>>
    /\ last.kind \in {"normal", "failed"} =>
          \A d \in declined[last.request.conversationId] :
              \A i \in 1..Len(last.sent) : ~Files(last.sent[i], d)

\* the assistant message the model answered with in the turn served last
ModelStep == last.messages[MaxOf({i \in 1..Len(last.messages) :
                                    last.messages[i].type = "ai"})]
\* the model answered the turn served last by requesting the draft action
DraftRequested ==
    /\ ServedNormal
    /\ ModelStep.tool_calls # <<>>
    /\ ModelStep.tool_calls[1].name = "generate_ticket_details"

C6_ApproveTurnCallsNoModel ==
    (/\ last.kind # "none"
     /\ last.request.action = "approve_ticket"
     /\ last.request.ticketData # NoData)
    => /\ last.kind = "approve"
       /\ Len(last.llmCalls) = 0

\* C6 witness: an approve turn that reached the gateway
C6_Witness ==
    /\ ServedApprove
    /\ last.request.ticketData = DraftPrinter
    /\ Len(last.sent) = 1

\* C7 (as claimed): an approve turn calls the gateway only for fields that
\* were returned as a draft by an earlier turn of the same conversation.
C7_FilingOnlyAfterDraft ==
    (ServedApprove /\ last.sent # <<>>) =>
        \E d \in drafted[last.request.conversationId] :
            d = last.request.ticketData /\ Files(last.sent[1], d)

\* Router.route as claimed: ticketAnalysis exactly when the message contains
\* a keyword of the supervisor's list
RouterDecision(message) ==
    supervisor_routing(<<HumanMessage(message)>>)

\* C8 (as claimed): every chat turn is dispatched by the one routing
\* decision: it runs the multi-agent workflow with the agent the router
\* names, and no other keyword check sends it to another workflow.
C8_DispatchFollowsRouter ==
    last.kind \in {"normal", "failed"} =>
        /\ last.workflow = "multi_agent"
        /\ ServedNormal => last.issueType = RouterDecision(last.request.message)

\* C10 (as claimed): in a chat turn, every assistant message that carries
\* requests is followed by one observation per request, in request order,
\* and then by a further answer of the model, which was given them.
C10_ObservationsFedBack ==
    ServedNormal =>
        \A i \in 1..Len(last.messages) :
            LET m == last.messages[i]
                n == Len(m.tool_calls)
            IN n > 0 =>
                 /\ Len(last.messages) >= i + n + 1
                 /\ \A k \in 1..n : last.messages[i + k].type = "tool"
                 /\ last.messages[i + n + 1].type = "ai"
                 /\ \E j \in 1..Len(last.llmCalls) :
                        Len(last.llmCalls[j].messages) >= i + n + 1

\* the model of the run requested a tool in every answer it was asked for
RequestedAtEveryStep ==
    /\ last.kind = "chat_run"
    /\ last.script.rounds >= Len(last.run.llmCalls)

DegradedReply == <<"I was unable to complete the request automatically.">>

\* C9 (as claimed): a run of the tool-call loop in which the model requests
\* an action at every step ends, at the round limit, with the fixed degraded
\* reply and not with an error.
C9_ExhaustedLoopDegrades ==
    RequestedAtEveryStep =>
        /\ ~last.run.error
        /\ last.run.result.content = DegradedReply

\* C11 (as claimed): a run of the tool-call loop that ends does so on a step
\* of the model that carries no request, and the reply the run returns is the
\* text of that step.
C11_PlainReplyIsFinalReply ==
    (last.kind = "chat_run" /\ ~last.run.error) =>
        LET step == last.run.messages[Len(last.run.messages)]
        IN /\ step.type = "ai"
           /\ step.tool_calls = <<>>
           /\ last.run.result.content = step.content

\* the model answered the drafting step of the turn served last in plain text
PlainAnswerToDrafting ==
    /\ ServedNormal
    /\ last.workflow = "approval"
    /\ ModelStep.tool_calls = <<>>

\* C12 (as claimed): when the model answers the drafting step in plain text,
\* the result of the turn carries that text, its approval flag is not set, it
\* reports no draft and it reports no tool as used.
C12_PlainAnswerSetsNoApproval ==
    PlainAnswerToDrafting =>
        /\ last.response.content = ModelStep.content
        /\ ~last.response.needsApproval
        /\ ~last.result.needsApproval
        /\ last.result.ticketDetails = NoData
        /\ last.result.toolsUsed = <<>>

\* the turn served last was routed by the supervisor to the chat agent
RoutedToGeneral ==
    /\ ServedNormal
    /\ last.workflow = "multi_agent"
    /\ last.issueType = "chat"

\* C13: a chat turn the supervisor routes to the chat agent returns the
\* model's answer, which carries no request, with no approval asked, no draft
\* and no ticket: the gateway is not called and no ticket id is reported.
C13_GeneralTurnPlainReply ==
    RoutedToGeneral =>
        /\ ModelStep.tool_calls = <<>>
        /\ last.response.content = ModelStep.content
        /\ ~last.response.needsApproval
        /\ last.response.ticketSummary = <<>>
        /\ last.response.interactiveButtons = NoData
        /\ ~last.response.ticketCreated
        /\ last.response.ticketId = None
        /\ last.sent = <<>>

\* C13 witness: the message "vpn" answered by the chat agent
C13_Witness ==
    /\ RoutedToGeneral
    /\ last.request.message = MsgVpn
    /\ last.response.content \in ReplyTexts

\* C14 (as claimed): when a chat turn ends with a draft, the reply text of
\* the response is the preview text the draft tool rendered for that draft.
C14_DraftReplyIsPreview ==
    (ServedNormal /\ last.response.needsApproval) =>
        last.response.content = generate_ticket_details(last.result.ticketDetails).text

\* the response of the turn served last asks for approval
AsksApproval ==
    /\ last.kind \in {"normal", "approve", "decline"}
    /\ last.response.needsApproval

\* C15: a response that asks for approval has the draft's subject as its
\* ticketSummary and exactly two buttons: approve, whose data is the captured
\* draft unchanged, and decline; a request that sends back the approve
\* button's action and data is an approval of exactly that draft.
C15_ApprovalPromptCarriesDraft ==
    AsksApproval =>
        LET b == last.response.interactiveButtons.buttons
            draft == last.result.ticketDetails
        IN /\ last.kind = "normal"
           /\ draft = ModelStep.tool_calls[1].args
           /\ last.response.ticketSummary = <<draft.subject>>
           /\ Len(b) = 2
           /\ b[1].action = "approve_ticket"
           /\ b[1].data = draft
           /\ b[2].action = "decline_ticket"
           /\ DOMAIN b[2] = {"id", "action"}
           /\ is_approve_request([last.request EXCEPT !.action = b[1].action,
                                                      !.ticketData = b[1].data])

\* C15 witness: a response asking to approve the draft of the VPN ticket
C15_Witness ==
    /\ AsksApproval
    /\ last.result.ticketDetails = DraftVpn
    /\ last.response.interactiveButtons.buttons[1].data = DraftVpn


\* C16: when the request an approve turn sends the gateway is answered with
\* a created ticket, the gateway was called once in the turn and the response
\* says ticketCreated with the id the gateway answered as ticketId.
C16_SuccessfulFilingReportsId ==
    (ServedApprove /\ last.sent # <<>> /\ last.outcome.kind = "created") =>
        /\ Len(last.sent) = 1
        /\ last.response.ticketCreated
        /\ last.response.ticketId = last.outcome.id
        /\ last.response.ticketNumber = last.outcome.id

\* C16 witness: an approve turn whose filing the gateway answered with ticket 101
C16_Witness ==
    /\ ServedApprove
    /\ last.outcome = OutCreated
    /\ Len(last.sent) = 1
    /\ last.response.ticketId = TicketIdA

\* C17: every approve turn that carries a draft calls the gateway once more,
\* whatever the conversation already filed: the gateway's count of requests
\* grows by one at each such turn, a repeated approval of the same draft
\* included.
C17_EveryApprovalFiles ==
    [][(turns' = turns + 1 /\ last'.kind = "approve"
        /\ IsIntLiteral(last'.request.ticketData.priority))
       => /\ Len(last'.sent) = 1
          /\ gatewayCalls' = gatewayCalls + 1]_vars

\* C17 witness: the printer draft approved a second time in a conversation
\* that has its ticket on record, and the gateway called again
C17_Witness ==
    /\ ServedApprove
    /\ last.request.ticketData = DraftPrinter
    /\ last.outcome = OutCreated
    /\ Len(last.sent) = 1
    /\ gatewayCalls >= 2
    /\ LET stored == messages_db[last.request.conversationId]
       IN Cardinality({i \in 1..Len(stored) :
                          /\ "ticketId" \in DOMAIN stored[i]
                          /\ stored[i].ticketId = TicketIdA
                          /\ stored[i].content = last.response.content}) >= 2

\* C18: a call of a tool returns a text whatever its arguments and whatever
\* the gateway answers, it does not raise; and create_ticket_directly returns
\* a result with a text whatever the ticketData, a missing key included.
C18_ExecutorNeverRaises ==
    /\ last.kind = "tool_run" =>
          /\ ~last.run.raised
          /\ last.run.text # <<>>
    /\ last.kind = "direct" =>
          /\ last.run.result.content # <<>>
          /\ last.run.result.success \in BOOLEAN

\* C18 witness: the filing tool called while the gateway times out
C18_Witness ==
    /\ last.kind = "tool_run"
    /\ last.name = "create_freshdesk_ticket"
    /\ last.outcome = OutTimeout
    /\ last.run.sent # <<>>
    /\ last.run.text = TextUnexpectedAgents

\* arguments the claimed validation of fileTicket rejects
InvalidFilingArgs(args) ==
    \/ args.priority \notin {"1", "2", "3", "4"}
    \/ args.email = <<>>
    \/ args.subject = <<>>
    \/ args.description = <<>>

\* C19 (as claimed): a filing tool called with a priority that is not an
\* integer of 1..4, or with an empty email, subject or description, sends the
\* gateway nothing.
C19_InvalidArgsNotSent ==
    (/\ last.kind = "tool_run"
     /\ last.name \in {"create_freshdesk_ticket", "create_support_ticket"}
     /\ InvalidFilingArgs(last.args))
    => last.run.sent = <<>>

\* the gateway answered with the code invalid_credentials
InvalidCredentials(out) ==
    /\ out.kind = "http_error"
    /\ out.json.parsed
    /\ out.json.code = "invalid_credentials"

\* C20: when the gateway answers a filing request with invalid_credentials,
\* the text of the tool is its fixed authentication message, which does not
\* read as a created ticket, and create_ticket_directly reports that message
\* with success false and no ticket id.
C20_InvalidCredentialsFixedText ==
    /\ (/\ last.kind = "tool_run"
        /\ last.run.sent # <<>>
        /\ InvalidCredentials(last.outcome))
       => /\ last.name = "create_freshdesk_ticket" => last.run.text = TextAuthAgents
          /\ last.name = "create_support_ticket" => last.run.text = TextAuthChat
          /\ ~Contains(<<CheckMark>>, last.run.text)
    /\ (/\ last.kind = "direct"
        /\ last.run.sent # <<>>
        /\ InvalidCredentials(last.outcome))
       => /\ last.run.result.content = TextAuthAgents
          /\ ~last.run.result.success
          /\ last.run.result.ticketId = None

\* C20 witness: create_ticket_directly answered with invalid_credentials
C20_Witness ==
    /\ last.kind = "direct"
    /\ last.outcome = OutAuth
    /\ last.run.sent # <<>>
    /\ last.run.result.content = TextAuthAgents

\* a call of a filing tool that sent its request to the gateway
FilingToolRun ==
    /\ last.kind = "tool_run"
    /\ last.name \in {"create_freshdesk_ticket", "create_support_ticket"}
    /\ last.run.sent # <<>>

\* C21 (as claimed): a filing tool reports a timeout or a connection failure
\* of the gateway with a text other than the one it gives for an internal
\* error (the one a priority that is no number gets), other than its
\* authentication text and other than what it gives for another gateway error.
C21_FailureClassesDistinct ==
    (FilingToolRun /\ last.outcome.kind \in {"timeout", "connection_error"}) =>
        /\ last.run.text # run_tool(last.name, ArgsPriorityHigh, config, last.outcome).text
        /\ last.run.text # run_tool(last.name, last.args, config, OutAuth).text
        /\ last.run.text # run_tool(last.name, last.args, config, OutOther).text

\* the fixed user-facing failure messages of the two filing tools
FixedFailureTexts ==
    {TextConfigAgents, TextAuthAgents, TextEmailInvalid, TextUnexpectedAgents,
     TextConfigChat, TextAuthChat, TextTimeout, TextConnection, TextUnexpectedChat}

\* C22 (as claimed): whatever failure the gateway answers, the text of a
\* filing tool is one of the fixed messages and contains neither the body nor
\* the error message of the gateway's answer.
C22_FailureTextsFixed ==
    (FilingToolRun /\ last.outcome.kind = "http_error") =>
        /\ last.run.text \in FixedFailureTexts
        /\ ~Contains(last.outcome.body, last.run.text)
        /\ last.outcome.json.parsed =>
              ~Contains(last.outcome.json.message, last.run.text)

\* C23: an approve turn whose request the gateway did not answer with a
\* created ticket has called the gateway exactly once when it returns; its
\* reply is the failure text of the tool, stored as the turn's message, with
\* ticketCreated false and no ticket id.
C23_FailedFilingNotRetried ==
    (ServedApprove /\ last.sent # <<>> /\ last.outcome.kind # "created") =>
        LET stored == messages_db[last.request.conversationId]
        IN /\ Len(last.sent) = 1
           /\ last.response.success
           /\ ~last.response.ticketCreated
           /\ last.response.ticketId = None
           /\ last.response.content[1] = CrossMark
           /\ stored[Len(stored)].content = last.response.content

\* C23 witness: an approve turn whose filing timed out
C23_Witness ==
    /\ ServedApprove
    /\ last.outcome = OutTimeout
    /\ Len(last.sent) = 1
    /\ last.response.content = TextUnexpectedAgents

\* C24 (as claimed): a turn that ends in the except branch of chat_endpoint
\* leaves the stored messages and the metadata of every conversation as they
\* were before the turn, and the caller gets a failure.
C24_FailedTurnIsAtomic ==
    [][(turns' = turns + 1 /\ last'.kind = "failed")
       => /\ ~last'.response.success
          /\ messages_db' = messages_db
          /\ conversations_db' = conversations_db]_vars

\* C25: a decline turn answers the fixed acknowledgement with no approval
\* asked and no ticket, calls nothing, and changes the state of the
\* conversation by appending that acknowledgement alone: the ticketData of
\* the request is stored nowhere.
C25_DeclineFixedAndDiscards ==
    [][(turns' = turns + 1 /\ last'.kind = "decline")
       => LET c == last'.request.conversationId
          IN /\ last'.response.content = DeclineMessage
             /\ ~last'.response.needsApproval
             /\ ~last'.response.ticketCreated
             /\ last'.response.ticketId = None
             /\ last'.response.ticketSummary = <<>>
             /\ last'.response.interactiveButtons = NoData
             /\ messages_db' =
                   [messages_db EXCEPT
                       ![c] = Append(@, [role |-> "assistant",
                                         content |-> DeclineMessage])]
             /\ conversations_db' = conversations_db
             /\ gatewayCalls' = gatewayCalls]_vars

\* C25 witness: the printer draft, returned for approval in the conversation,
\* declined
C25_Witness ==
    /\ last.kind = "decline"
    /\ last.request.ticketData = DraftPrinter
    /\ DraftPrinter \in declined[last.request.conversationId]

IsPrefix(s, t) == Len(s) <= Len(t) /\ SubSeq(t, 1, Len(s)) = s

\* C26: at every step the stored messages of every conversation are a prefix
\* of what they are after it, and a conversation that has metadata keeps
\* having some.
C26_StoredMessagesAppendOnly ==
    [][\A c \in ConvIds :
          /\ IsPrefix(messages_db[c], messages_db'[c])
          /\ conversations_db[c] # NoData => conversations_db'[c] # NoData]_vars

\* C26 witness: a conversation that went through a chat turn, a decline and an
\* approval holds the messages of all three
C26_Witness ==
    /\ ServedApprove
    /\ LET stored == messages_db[last.request.conversationId]
       IN /\ Len(stored) = 4
          /\ stored[1].role = "user"
          /\ stored[3].content = DeclineMessage
          /\ stored[4].content = last.response.content

\* C27: a turn on a conversation leaves the stored messages and the metadata
\* of every other conversation as they were, and every call of the model made
\* in the turn is given, after the prompt, the stored messages of that
\* conversation followed by the message of the request, and nothing else.
C27_ConversationsIndependent ==
    [][(turns' = turns + 1)
       => LET c == last'.request.conversationId
          IN /\ \A d \in ConvIds \ {c} :
                   /\ messages_db'[d] = messages_db[d]
                   /\ conversations_db'[d] = conversations_db[d]
             /\ \A j \in 1..Len(last'.llmCalls) :
                   Tail(last'.llmCalls[j].messages)
                      = to_messages(messages_db[c], last'.request.message)]_vars

\* C27 witness: a chat turn on a conversation with history of its own while
\* the other conversation has stored messages too
C27_Witness ==
    /\ ServedNormal
    /\ Len(last.llmCalls) = 1
    /\ Len(last.llmCalls[1].messages) >= 4
    /\ \E d \in ConvIds \ {last.request.conversationId} : messages_db[d] # <<>>

\* C28 (as claimed): the draft a response asks to approve has a subject and a
\* description that are not empty and a priority that is an ordinal of 1..4.
C28_ReturnedDraftWellFormed ==
    (ServedNormal /\ last.response.needsApproval) =>
        LET draft == last.response.interactiveButtons.buttons[1].data
        IN /\ draft.subject # <<>>
           /\ draft.description # <<>>
           /\ draft.priority \in {"1", "2", "3", "4"}

\* C29 (as claimed): the response of a turn says ticketCreated exactly when a
\* request the turn sent to the gateway was answered with a created ticket.
C29_TicketCreatedIffFiled ==
    /\ ServedApprove =>
          (last.response.ticketCreated
             <=> (last.sent # <<>> /\ last.outcome.kind = "created"))
    /\ ServedNormal =>
          (last.response.ticketCreated
             <=> \E i \in 1..Len(last.sent) : last.outcomes[i].kind = "created")

\* C30: a chat turn stores its two messages in one step, right after the
\* messages it read: the request's message and then the reply of the turn;
\* so every stored user message is followed by the reply of its turn.
C30_ReplyFollowsUserMessage ==
    [][(turns' = turns + 1 /\ last'.kind = "normal")
       => LET c == last'.request.conversationId
          IN /\ messages_db'[c] =
                   messages_db[c]
                   \o <<[role |-> "user", content |-> last'.request.message],
                        [role |-> "assistant", content |-> last'.response.content]>>
             /\ \A i \in 1..Len(messages_db'[c]) :
                   messages_db'[c][i].role = "user" =>
                      /\ i < Len(messages_db'[c])
                      /\ messages_db'[c][i + 1].role = "assistant"
                      /\ DOMAIN messages_db'[c][i + 1] = {"role", "content"}]_vars

\* C30 witness: a conversation after its second chat turn
C30_Witness ==
    /\ ServedNormal
    /\ LET stored == messages_db[last.request.conversationId]
       IN /\ Len(stored) = 4
          /\ stored[1].role = "user"
          /\ stored[3].role = "user"
          /\ stored[4].content = last.response.content

\* C31: a chat turn that returns a reply appends two messages to the stored
\* messages of its conversation, of roles user and assistant in that order,
\* and stores new metadata for it; an approve turn and a decline turn append
\* one message, of role assistant, and leave the metadata as it was.
C31_TurnFrame ==
    [][(turns' = turns + 1)
       => LET c == last'.request.conversationId
              n == Len(messages_db[c])
              after == messages_db'[c]
          IN /\ last'.kind = "normal" =>
                   /\ Len(after) = n + 2
                   /\ after[n + 1].role = "user"
                   /\ after[n + 2].role = "assistant"
                   /\ conversations_db'[c] =
                         [lastMessage |-> last'.request.message,
                          userId |-> last'.request.userId]
             /\ last'.kind \in {"approve", "decline"} =>
                   /\ Len(after) = n + 1
                   /\ after[n + 1].role = "assistant"
                   /\ conversations_db' = conversations_db]_vars

\* C31 witness: an approve turn on a conversation that has metadata from an
\* earlier chat turn
C31_Witness ==
    /\ ServedApprove
    /\ conversations_db[last.request.conversationId] # NoData
    /\ Len(messages_db[last.request.conversationId]) = 3

\* the request served last had the approve action and no ticketData
ApproveWithoutData ==
    /\ last.kind # "none"
    /\ last.request.action = "approve_ticket"
    /\ last.request.ticketData = NoData

\* C32: a request with the approve action and no ticketData is served by the
\* normal chat flow: the workflow the keyword check of its message selects is
\* run and calls the model once; the filing path is not taken.
C32_ApproveWithoutDataIsChatTurn ==
    ApproveWithoutData =>
        /\ last.kind \in {"normal", "failed"}
        /\ last.workflow = dispatch(last.request)
        /\ Len(last.llmCalls) = 1
        /\ last.workflow = "approval" => last.sent = <<>>

\* C32 witness: such a request answered by the model
C32_Witness ==
    /\ ApproveWithoutData
    /\ ServedNormal
    /\ Len(last.llmCalls) = 1

\* C33: a request with the decline action is served by the decline branch,
\* with or without ticketData and whatever was drafted in the conversation:
\* the fixed acknowledgement, no workflow, no call of the model, no call of
\* the gateway.
C33_DeclineAlwaysHandled ==
    (last.kind # "none" /\ last.request.action = "decline_ticket") =>
        /\ last.kind = "decline"
        /\ last.response.content = DeclineMessage
        /\ last.llmCalls = <<>>
        /\ last.sent = <<>>

\* C33 witness: a decline with no ticketData in a conversation where nothing
\* was drafted
C33_Witness ==
    /\ last.kind = "decline"
    /\ last.request.ticketData = NoData
    /\ drafted[last.request.conversationId] = {}

\* the turn served last captured a draft
DraftCaptured ==
    /\ ServedNormal
    /\ last.workflow = "approval"
    /\ last.result.ticketDetails # NoData

\* C34: no response says both needsApproval and ticketCreated; a response
\* says needsApproval exactly when the turn captured a draft, and then it has
\* the buttons and a ticketSummary.
C34_ApprovalFlagMatchesDraft ==
    last.kind \in {"normal", "approve", "decline"} =>
        /\ ~(last.response.needsApproval /\ last.response.ticketCreated)
        /\ last.response.needsApproval <=> DraftCaptured
        /\ last.response.needsApproval =>
              /\ last.response.interactiveButtons # NoData
              /\ last.response.ticketSummary # <<>>

\* C34 witness: the printer draft captured and returned for approval
C34_Witness ==
    /\ DraftCaptured
    /\ last.result.ticketDetails = DraftPrinter
    /\ last.response.needsApproval
    /\ ~last.response.ticketCreated

\* C35: the messages a chat turn gives the model are the prompt, then one
\* message per stored message of the conversation, in stored order, of the
\* stored role and content, then the message of the request, once.
C35_HistoryGivenToModel ==
    [][(turns' = turns + 1 /\ last'.kind \in {"normal", "failed"})
       => LET stored == messages_db[last'.request.conversationId]
              n == Len(stored)
          IN \A j \in 1..Len(last'.llmCalls) :
                LET given == last'.llmCalls[j].messages
                IN /\ Len(given) = n + 2
                   /\ \A i \in 1..n :
                         /\ given[i + 1].content = stored[i].content
                         /\ given[i + 1].type =
                               (IF stored[i].role = "user" THEN "human" ELSE "ai")
                   /\ given[n + 2] = HumanMessage(last'.request.message)]_vars

\* C35 witness: a chat turn whose model is given the acknowledgement of an
\* earlier decline
C35_Witness ==
    /\ ServedNormal
    /\ Len(last.llmCalls) = 1
    /\ \E i \in 1..Len(last.llmCalls[1].messages) :
          last.llmCalls[1].messages[i] = AIMessage(DeclineMessage, <<>>)

SeveralDraftsRequested ==
    /\ DraftRequested
    /\ Len(ModelStep.tool_calls) >= 2

\* C37: when the model requests the draft tool several times in one message,
\* the run has one observation per request, in request order, each the
\* preview of its request, and the draft captured is the argument set of the
\* first request; a different argument set of a later request is not the
\* draft.
C37_FirstRequestIsCaptured ==
    SeveralDraftsRequested =>
        LET calls == ModelStep.tool_calls
            n == Len(last.messages)
            k == Len(calls)
        IN /\ last.messages[n - k] = ModelStep
           /\ \A i \in 1..k :
                 last.messages[n - k + i]
                    = ToolMessage(generate_ticket_details(calls[i].args).text)
           /\ last.result.ticketDetails = calls[1].args
           /\ \A i \in 2..k :
                 calls[i].args # calls[1].args =>
                    /\ last.result.ticketDetails # calls[i].args
                    /\ last.response.ticketSummary # <<calls[i].args.subject>>

\* C37 witness: the VPN draft and then the printer draft requested in one
\* message, the VPN draft captured
C37_Witness ==
    /\ SeveralDraftsRequested
    /\ ModelStep.tool_calls[1].args = DraftVpn
    /\ ModelStep.tool_calls[2].args = DraftPrinter
    /\ last.result.ticketDetails = DraftVpn

=============================================================================
